---- MODULE Spec2Model ----
(***************************************************************************)
(* The user-management endpoints of fastapi_assignment.                    *)
(*                                                                         *)
(*   main.py               the relational application: six routes over the *)
(*                         table "users" (SQLite through SQLAlchemy)       *)
(*   app/schemas/users.py  the in-memory application: POST /users over the *)
(*                         dict fake_db and the global user_id_counter     *)
(*                                                                         *)
(* Spec      is main.py served over HTTP: one step is one request, routed  *)
(*           by the route table in declaration order.                      *)
(* SpecMem   is app/schemas/users.py with its handler run by worker        *)
(*           threads (a "def" endpoint runs in the thread pool): one step  *)
(*           is one read or write of the shared globals.                   *)
(***************************************************************************)
EXTENDS Integers, Sequences, FiniteSets, TLC

(***************************************************************************)
(* Bounds of the model.                                                    *)
(***************************************************************************)
\* the largest id the store hands out before the model stops creating
MaxId == 2
\* users.py: the worker threads, and the create requests they answer in all
NumThreads == 2
MaxCreates == 3

(***************************************************************************)
(* Constants of the program.                                               *)
(***************************************************************************)
\* Field(..., min_length=1, max_length=50)
UsernameMinLength == 1
UsernameMaxLength == 50
\* Field(..., ge=0, le=120)
AgeGe == 0
AgeLe == 120
\* UserQueryParams.age / Query(..., gt=0)
QueryAgeGt == 0
\* Path(..., ge=1)
PathIdGe == 1

\* class GenderEnum(str, Enum)
GenderEnum == {"male", "female"}

(***************************************************************************)
(* Values.  An optional value is a sequence of length 0 (absent, None) or  *)
(* 1 (present).  A username is a string, and Len is the number of its      *)
(* characters, which is what the validators measure; Rep(n) is the string  *)
(* of n characters.                                                        *)
(***************************************************************************)
None == <<>>
Some(v) == <<v>>
Opt(S) == {None} \cup {Some(v) : v \in S}

RECURSIVE Rep(_)
Rep(n) == IF n = 0 THEN "" ELSE "a" \o Rep(n - 1)

\* the inputs requests are drawn from: the two ends of every accepted range,
\* and the first value outside each end
GoodUsernames == {Rep(UsernameMinLength), Rep(UsernameMaxLength)}
BadUsernames == {Rep(UsernameMinLength - 1), Rep(UsernameMaxLength + 1)}
GoodAges == {AgeGe, AgeLe}
BadAges == {AgeGe - 1, AgeLe + 1}
BadGenders == {"other"}

VARIABLES
    table,            \* main.py: the rows of "users", a function id -> row
    req,              \* main.py: the request being answered
    resp,             \* main.py: its response
    issued,           \* history: the ids POST /users of main.py has returned
    fresh,            \* history: the last create, until its id is written again
    fake_db,          \* users.py: the dict id -> UserModel
    user_id_counter,  \* users.py: the global counter
    pc,               \* users.py: where each worker thread is in create_user
    new_user,         \* users.py: each thread's local new_user
    reg,              \* users.py: the value each thread has loaded of the counter
    returned          \* history: the ids POST /users of users.py has returned

mainVars == <<table, req, resp, issued, fresh>>
memVars == <<fake_db, user_id_counter, pc, new_user, reg, returned>>
vars == <<table, req, resp, issued, fresh,
          fake_db, user_id_counter, pc, new_user, reg, returned>>

(***************************************************************************)
(* Requests and responses.                                                 *)
(*                                                                         *)
(* A path is the sequence of its segments: /users/7 is <<"users", "7">>.   *)
(* A JSON body and a query string are records of optional fields; a        *)
(* request without a body has present = FALSE.                             *)
(***************************************************************************)
NoBody == [present |-> FALSE, username |-> None, age |-> None, gender |-> None]
NoQuery == [username |-> None, age |-> None, gender |-> None]

Request(m, p, b, q) == [method |-> m, path |-> p, body |-> b, query |-> q]

\* status, the endpoint that answered, and the JSON it returned: "id" is the id
\* of {"id": ...} and of the delete message, "users" the record or records
Response(e, s, i, us) == [endpoint |-> e, status |-> s, id |-> i, users |-> us]

Min(S) == CHOOSE x \in S : \A y \in S : x <= y
Max(S) == CHOOSE x \in S : \A y \in S : x >= y
Range(f) == {f[i] : i \in DOMAIN f}

(***************************************************************************)
(* Validation: the pydantic models and the Path / Query declarations.      *)
(***************************************************************************)
\* Field(..., min_length=1, max_length=50) on a present str
UsernameField(u) == Len(u) >= UsernameMinLength /\ Len(u) <= UsernameMaxLength

\* AgeField without le=120
AgeField_mut_le(a) == a >= AgeGe

\* Field(..., ge=0, le=120) on a present int
AgeField(a) == a >= AgeGe /\ a <= AgeLe

\* class UserCreateRequest: every field required
UserCreateRequest(b) ==
    /\ b.present
    /\ b.username # None /\ UsernameField(b.username[1])
    /\ b.age # None /\ AgeField(b.age[1])
    /\ b.gender # None /\ b.gender[1] \in GenderEnum

\* class UserUpdateRequest: both fields default to None; a key the model does
\* not declare (gender) is ignored
UserUpdateRequest(b) ==
    /\ b.username # None => UsernameField(b.username[1])
    /\ b.age # None => AgeField(b.age[1])

\* class UserQueryParams and the Query(...) declarations of search_users
UserQueryParams(q) ==
    /\ q.username # None /\ UsernameField(q.username[1])
    /\ q.age # None /\ q.age[1] > QueryAgeGt
    /\ q.gender # None /\ q.gender[1] \in GenderEnum

\* the decimal strings a path segment is parsed from
IntStrings == {ToString(n) : n \in 0..MaxId}
\* int(segment): the value of a decimal string, None for any other text
ParseInt(s) ==
    IF s \in IntStrings
    THEN Some(CHOOSE n \in 0..MaxId : ToString(n) = s)
    ELSE None

\* user_id: int = Path(..., ge=1)
PathUserId(seg) == ParseInt(seg) # None /\ ParseInt(seg)[1] >= PathIdGe

(***************************************************************************)
(* The table "users" and the ORM calls on it.                              *)
(***************************************************************************)
\* id = Column(Integer, primary_key=True, index=True, autoincrement=True): on
\* SQLite the column is declared INTEGER PRIMARY KEY without the AUTOINCREMENT
\* keyword (no sqlite_autoincrement in the table's arguments), so it is the
\* rowid, and an insert without an id takes the largest rowid in the table
\* plus one, 1 in an empty table
NextRowid(t) == IF DOMAIN t = {} THEN 1 ELSE Max(DOMAIN t) + 1

\* UserModel_create storing the column default instead of the gender sent
UserModel_create_mut_gender(t, data) ==
    LET id == NextRowid(t)
        row == [id |-> id, username |-> data.username[1],
                age |-> data.age[1], gender |-> "male"]
    IN  [table |-> [i \in DOMAIN t \cup {id} |-> IF i = id THEN row ELSE t[i]],
         user |-> row]

\* UserModel.create: cls(**kwargs), db.add, db.commit, db.refresh
UserModel_create(t, data) ==
    LET id == NextRowid(t)
        row == [id |-> id, username |-> data.username[1],
                age |-> data.age[1], gender |-> data.gender[1]]
    IN  [table |-> [i \in DOMAIN t \cup {id} |-> IF i = id THEN row ELSE t[i]],
         user |-> row]

\* the ids of a set in ascending order: the order a scan of the table yields
RECURSIVE Ascending(_)
Ascending(S) == IF S = {} THEN <<>> ELSE <<Min(S)>> \o Ascending(S \ {Min(S)})

\* UserModel.all: db.query(cls).all()
UserModel_all(t) == [k \in 1..Cardinality(DOMAIN t) |-> t[Ascending(DOMAIN t)[k]]]

\* UserModel_delete without the commit: the row stays
UserModel_delete_mut_nocommit(t, id) == t

\* UserModel.delete: db.delete(self), db.commit()
UserModel_delete(t, id) == [i \in DOMAIN t \ {id} |-> t[i]]

\* db.query(UserModel).filter(UserModel.id == user_id).first()
QueryById(t, id) == IF id \in DOMAIN t THEN Some(t[id]) ELSE None

\* db.query(UserModel).filter_by(username=..., age=..., gender=...).all()
FilterBy(t, params) ==
    LET hit == {i \in DOMAIN t : /\ t[i].username = params.username[1]
                                 /\ t[i].age = params.age[1]
                                 /\ t[i].gender = params.gender[1]}
    IN  [k \in 1..Cardinality(hit) |-> t[Ascending(hit)[k]]]

\* UserResponse.model_validate(u)
UserResponse(u) == [id |-> u.id, username |-> u.username, age |-> u.age, gender |-> u.gender]

(***************************************************************************)
(* The endpoints of main.py.  Each takes the table and the parts of the    *)
(* request its signature declares, and yields the table it leaves and its  *)
(* response.  A parameter that fails its declaration is answered 422       *)
(* before the function body runs.                                          *)
(***************************************************************************)
Reply(t, e, s, i, us) == [table |-> t, resp |-> Response(e, s, i, us)]

\* POST /users
create_user(t, b) ==
    IF ~UserCreateRequest(b)
    THEN Reply(t, "create_user", 422, 0, <<>>)
    ELSE LET c == UserModel_create(t, b)
         IN  Reply(c.table, "create_user", 200, c.user.id, <<>>)

\* get_all_users without the "if not users" branch: an empty list, 200
get_all_users_mut_empty(t) ==
    Reply(t, "get_all_users", 200, 0,
          [k \in DOMAIN UserModel_all(t) |-> UserResponse(UserModel_all(t)[k])])

\* GET /users
get_all_users(t) ==
    LET users == UserModel_all(t)
    IN  IF users = <<>>
        THEN Reply(t, "get_all_users", 404, 0, <<>>)
        ELSE Reply(t, "get_all_users", 200, 0, [k \in DOMAIN users |-> UserResponse(users[k])])

\* GET /users/{user_id}
get_user(t, seg) ==
    IF ~PathUserId(seg)
    THEN Reply(t, "get_user", 422, 0, <<>>)
    ELSE LET user == QueryById(t, ParseInt(seg)[1])
         IN  IF user = None
             THEN Reply(t, "get_user", 404, 0, <<>>)
             ELSE Reply(t, "get_user", 200, 0, <<UserResponse(user[1])>>)

\* ApplyUpdate with a third assignment, of gender
ApplyUpdate_mut_gender(user, b) ==
    [user EXCEPT !.username = IF b.username # None THEN b.username[1] ELSE @,
                 !.age = IF b.age # None THEN b.age[1] ELSE @,
                 !.gender = IF b.gender # None THEN b.gender[1] ELSE @]

\* update_user, the two assignments: a field that is not None is written
ApplyUpdate(user, b) ==
    [user EXCEPT !.username = IF b.username # None THEN b.username[1] ELSE @,
                 !.age = IF b.age # None THEN b.age[1] ELSE @]

\* PUT /users/{user_id}.  data: UserUpdateRequest = None: a request without a
\* body passes validation with data = None, and data.username then raises
\* AttributeError, which the server answers 500; nothing was written
update_user(t, seg, b) ==
    IF ~PathUserId(seg) \/ (b.present /\ ~UserUpdateRequest(b))
    THEN Reply(t, "update_user", 422, 0, <<>>)
    ELSE LET id == ParseInt(seg)[1]
             user == QueryById(t, id)
         IN  IF user = None
             THEN Reply(t, "update_user", 404, 0, <<>>)
             ELSE IF ~b.present
             THEN Reply(t, "update_user", 500, 0, <<>>)
             ELSE LET row == ApplyUpdate(user[1], b)
                  IN  Reply([t EXCEPT ![id] = row], "update_user", 200, 0,
                            <<UserResponse(row)>>)

\* DELETE /users/{user_id}
delete_user(t, seg) ==
    IF ~PathUserId(seg)
    THEN Reply(t, "delete_user", 422, 0, <<>>)
    ELSE LET id == ParseInt(seg)[1]
             user == QueryById(t, id)
         IN  IF user = None
             THEN Reply(t, "delete_user", 404, 0, <<>>)
             ELSE Reply(UserModel_delete(t, id), "delete_user", 200, id, <<>>)

\* the function registered for GET /users/search
search_users(t, q) ==
    IF ~UserQueryParams(q)
    THEN Reply(t, "search_users", 422, 0, <<>>)
    ELSE LET users == FilterBy(t, q)
         IN  IF users = <<>>
             THEN Reply(t, "search_users", 404, 0, <<>>)
             ELSE Reply(t, "search_users", 200, 0, [k \in DOMAIN users |-> UserResponse(users[k])])

(***************************************************************************)
(* Routing.  The decorators register the routes in the order they are      *)
(* written, and the router answers with the first route whose path pattern *)
(* and method both match the request.  {user_id} matches any one segment.  *)
(***************************************************************************)
Lit(s) == [param |-> FALSE, text |-> s]
Param(s) == [param |-> TRUE, text |-> s]

Routes ==
    << [method |-> "POST",   path |-> <<Lit("users")>>,                   endpoint |-> "create_user"],
       [method |-> "GET",    path |-> <<Lit("users")>>,                   endpoint |-> "get_all_users"],
       [method |-> "GET",    path |-> <<Lit("users"), Param("user_id")>>, endpoint |-> "get_user"],
       [method |-> "PUT",    path |-> <<Lit("users"), Param("user_id")>>, endpoint |-> "update_user"],
       [method |-> "DELETE", path |-> <<Lit("users"), Param("user_id")>>, endpoint |-> "delete_user"],
       [method |-> "GET",    path |-> <<Lit("users"), Lit("search")>>,    endpoint |-> "search_users"] >>

PathMatches(pattern, path) ==
    /\ Len(pattern) = Len(path)
    /\ \A k \in DOMAIN pattern : pattern[k].param \/ pattern[k].text = path[k]

\* the endpoint a request is dispatched to; "404" when no pattern matches the
\* path, "405" when patterns match it but none for the method
Dispatch(method, path) ==
    LET partial == {k \in DOMAIN Routes : PathMatches(Routes[k].path, path)}
        full == {k \in partial : Routes[k].method = method}
    IN  IF full # {} THEN Routes[Min(full)].endpoint
        ELSE IF partial # {} THEN "405" ELSE "404"

\* the application answering one request
Serve(t, r) ==
    LET e == Dispatch(r.method, r.path)
    IN  CASE e = "create_user"   -> create_user(t, r.body)
          [] e = "get_all_users" -> get_all_users(t)
          [] e = "get_user"      -> get_user(t, r.path[2])
          [] e = "update_user"   -> update_user(t, r.path[2], r.body)
          [] e = "delete_user"   -> delete_user(t, r.path[2])
          [] e = "search_users"  -> search_users(t, r.query)
          [] e = "405"           -> Reply(t, "", 405, 0, <<>>)
          [] OTHER               -> Reply(t, "", 404, 0, <<>>)

(***************************************************************************)
(* Spec: main.py answering requests, one at a time.  A request is drawn    *)
(* and answered in one step; the next step delivers the response and       *)
(* closes the request's session, after which the next request is drawn.    *)
(***************************************************************************)
Present(S) == {Some(v) : v \in S}

\* a well-formed create body, and the bodies that differ from it in one field
BaseBody ==
    [present |-> TRUE, username |-> Some(Rep(UsernameMinLength)),
     age |-> Some(AgeLe), gender |-> Some("male")]

\* POST bodies: every well-formed one; the base body with one field missing or
\* out of bounds; no body
PostBodies ==
    [present : {TRUE}, username : Present(GoodUsernames), age : Present(GoodAges),
     gender : Present(GenderEnum)]
    \cup {[BaseBody EXCEPT !.username = x] : x \in {None} \cup Present(BadUsernames)}
    \cup {[BaseBody EXCEPT !.age = x] : x \in {None} \cup Present(BadAges)}
    \cup {[BaseBody EXCEPT !.gender = x] : x \in {None} \cup Present(BadGenders)}
    \cup {NoBody}

\* PUT bodies: every combination of an absent or well-formed username and age;
\* one field out of bounds beside an absent or a well-formed other; a gender
\* key, which UserUpdateRequest does not declare; no body
PutBodies ==
    [present : {TRUE}, username : Opt(GoodUsernames), age : Opt(GoodAges), gender : {None}]
    \cup [present : {TRUE}, username : Present(BadUsernames),
          age : {None, Some(AgeLe)}, gender : {None}]
    \cup [present : {TRUE}, username : {None, Some(Rep(UsernameMinLength))},
          age : Present(BadAges), gender : {None}]
    \cup [present : {TRUE}, username : {None}, age : {None},
          gender : Present(GenderEnum \cup BadGenders)]
    \cup {NoBody}

\* query strings of GET /users/search: well-formed usernames and genders with
\* every age input; a username or a gender out of bounds; no query string
BaseQuery ==
    [username |-> Some(Rep(UsernameMinLength)), age |-> Some(AgeLe), gender |-> Some("male")]
Queries ==
    [username : Present(GoodUsernames), age : Present(GoodAges \cup BadAges),
     gender : Present(GenderEnum)]
    \cup {[BaseQuery EXCEPT !.username = x] : x \in Present(BadUsernames)}
    \cup {[BaseQuery EXCEPT !.gender = x] : x \in Present(BadGenders)}
    \cup {NoQuery}

\* the second segment of a path: an id up to MaxId, 0, or the word search
Segments == IntStrings \cup {"search"}

NoRequest == Request("", <<>>, NoBody, NoQuery)
NoResponse == Response("", 0, 0, <<>>)

Threads == 1..NumThreads

\* main.py: the table is empty (a new test.db), no request is being answered.
\* users.py: fake_db = {} and user_id_counter = 1, every thread is idle
Init ==
    /\ table = <<>>
    /\ req = NoRequest
    /\ resp = NoResponse
    /\ issued = {}
    /\ fresh = None
    /\ fake_db = <<>>
    /\ user_id_counter = 1
    /\ pc = [t \in Threads |-> "idle"]
    /\ new_user = [t \in Threads |-> None]
    /\ reg = [t \in Threads |-> 0]
    /\ returned = <<>>

\* one request answered: the table and the response are the application's, the
\* history variables record what the clients have seen
Answer(r) ==
    LET out == Serve(table, r)
        created == out.resp.endpoint = "create_user" /\ out.resp.status = 200
    IN  /\ UNCHANGED memVars
        /\ req' = r
        /\ table' = out.table
        /\ resp' = out.resp
        /\ issued' = IF created THEN issued \cup {out.resp.id} ELSE issued
        /\ fresh' = IF created
                    THEN Some([id |-> out.resp.id, username |-> r.body.username[1],
                               age |-> r.body.age[1], gender |-> r.body.gender[1]])
                    ELSE IF /\ fresh # None
                            /\ r.method \in {"PUT", "DELETE"}
                            /\ ParseInt(r.path[2]) = Some(fresh[1].id)
                    THEN None
                    ELSE fresh

PostUsers ==
    /\ req = NoRequest
    /\ \E b \in PostBodies :
        /\ UserCreateRequest(b) => NextRowid(table) <= MaxId
        /\ Answer(Request("POST", <<"users">>, b, NoQuery))

GetUsers ==
    /\ req = NoRequest
    /\ Answer(Request("GET", <<"users">>, NoBody, NoQuery))

GetUsersSegment ==
    /\ req = NoRequest
    /\ \E seg \in Segments : \E q \in Queries :
        /\ q # NoQuery => seg = "search"
        /\ Answer(Request("GET", <<"users", seg>>, NoBody, q))

PutUsersSegment ==
    /\ req = NoRequest
    /\ \E seg \in Segments : \E b \in PutBodies :
        Answer(Request("PUT", <<"users", seg>>, b, NoQuery))

DeleteUsersSegment ==
    /\ req = NoRequest
    /\ \E seg \in Segments :
        Answer(Request("DELETE", <<"users", seg>>, NoBody, NoQuery))

\* get_db: finally db.close(); the response has been sent
Close ==
    /\ req # NoRequest
    /\ req' = NoRequest
    /\ resp' = NoResponse
    /\ UNCHANGED <<table, issued, fresh>>
    /\ UNCHANGED memVars

Next ==
    \/ PostUsers
    \/ GetUsers
    \/ GetUsersSegment
    \/ PutUsersSegment
    \/ DeleteUsersSegment
    \/ Close

Spec == Init /\ [][Next]_vars

(***************************************************************************)
(* SpecMem: app/schemas/users.py.  create_user is a "def" endpoint, which  *)
(* the server runs in a pool of worker threads, so several calls are in    *)
(* flight at once and the interpreter may switch threads between the       *)
(* statements of the function and between the load and the store of +=.    *)
(***************************************************************************)
\* class UserCreate: every field required
UserCreate(b) ==
    /\ b.present
    /\ b.username # None /\ UsernameField(b.username[1])
    /\ b.age # None /\ AgeField(b.age[1])
    /\ b.gender # None /\ b.gender[1] \in GenderEnum

\* a body that fails UserCreate is answered 422 and create_user is not called:
\* no variable changes.  Otherwise new_user = UserModel(id=user_id_counter, ...)
Line36(t) ==
    /\ pc[t] = "idle"
    /\ Len(returned) + Cardinality({u \in Threads : pc[u] # "idle"}) < MaxCreates
    /\ \E b \in PostBodies :
        /\ UserCreate(b)
        /\ new_user' = [new_user EXCEPT ![t] =
               Some([id |-> user_id_counter, username |-> b.username[1],
                     age |-> b.age[1], gender |-> b.gender[1]])]
    /\ pc' = [pc EXCEPT ![t] = "line42"]
    /\ UNCHANGED <<fake_db, user_id_counter, reg, returned>>
    /\ UNCHANGED mainVars

\* fake_db[user_id_counter] = new_user: the key is the counter as it is now
Line42(t) ==
    /\ pc[t] = "line42"
    /\ fake_db' = [k \in DOMAIN fake_db \cup {user_id_counter} |->
                      IF k = user_id_counter THEN new_user[t][1] ELSE fake_db[k]]
    /\ pc' = [pc EXCEPT ![t] = "line43"]
    /\ UNCHANGED <<user_id_counter, new_user, reg, returned>>
    /\ UNCHANGED mainVars

\* user_id_counter += 1, the load
Line43Load(t) ==
    /\ pc[t] = "line43"
    /\ reg' = [reg EXCEPT ![t] = user_id_counter]
    /\ pc' = [pc EXCEPT ![t] = "line43store"]
    /\ UNCHANGED <<fake_db, user_id_counter, new_user, returned>>
    /\ UNCHANGED mainVars

\* user_id_counter += 1, the store
Line43Store(t) ==
    /\ pc[t] = "line43store"
    /\ user_id_counter' = reg[t] + 1
    /\ pc' = [pc EXCEPT ![t] = "line45"]
    /\ UNCHANGED <<fake_db, new_user, reg, returned>>
    /\ UNCHANGED mainVars

\* return {"id": new_user.id}
Line45(t) ==
    /\ pc[t] = "line45"
    /\ returned' = Append(returned, new_user[t][1].id)
    /\ new_user' = [new_user EXCEPT ![t] = None]
    /\ reg' = [reg EXCEPT ![t] = 0]
    /\ pc' = [pc EXCEPT ![t] = "idle"]
    /\ UNCHANGED <<fake_db, user_id_counter>>
    /\ UNCHANGED mainVars

NextMem ==
    \E t \in Threads :
        \/ Line36(t)
        \/ Line42(t)
        \/ Line43Load(t)
        \/ Line43Store(t)
        \/ Line45(t)

SpecMem == Init /\ [][NextMem]_vars

(***************************************************************************)
(* The claims.                                                             *)
(***************************************************************************)
UsersPath == <<"users">>
IdPath(i) == <<"users", ToString(i)>>
SearchPath == <<"users", "search">>

\* the path names a user id, and the table held a row of that id
Targets(r, t) ==
    /\ Len(r.path) = 2
    /\ ParseInt(r.path[2]) # None
    /\ ParseInt(r.path[2])[1] \in DOMAIN t

\* the records of the table that equal a query in all three fields
Matching(t, q) ==
    {UserResponse(t[i]) : i \in {j \in DOMAIN t : /\ t[j].username = q.username[1]
                                                  /\ t[j].age = q.age[1]
                                                  /\ t[j].gender = q.gender[1]}}

\* C1: every successful create returns an id that is positive and strictly
\* greater than every id an earlier create returned, deleted users' ids
\* included (ids are never reused).
C1_IdsNeverReused ==
    [][(resp'.endpoint = "create_user" /\ resp'.status = 200)
          => (resp'.id > 0 /\ \A j \in issued : resp'.id > j)]_vars

C3_SearchIsRouted ==
    (/\ req.method = "GET"
     /\ req.path = SearchPath
     /\ UserQueryParams(req.query))
        => /\ resp.endpoint = "search_users"
           /\ resp = search_users(table, req.query).resp

\* C4: a PUT leaves every row's id and gender as they were, adds and removes
\* no row, changes no row but the one its path names, and leaves that row's
\* username unchanged when the body has no username, its age unchanged when
\* the body has no age.
C4_UpdateFrame ==
    [][req'.method = "PUT" =>
         /\ DOMAIN table' = DOMAIN table
         /\ \A j \in DOMAIN table :
               /\ table'[j].id = table[j].id
               /\ table'[j].gender = table[j].gender
               /\ ParseInt(req'.path[2]) # Some(j) => table'[j] = table[j]
               /\ req'.body.username = None => table'[j].username = table[j].username
               /\ req'.body.age = None => table'[j].age = table[j].age]_vars

\* an update of age alone has succeeded on a row whose stored username is not
\* the one a default would give, beside another row
C4_Witness ==
    /\ req.method = "PUT"
    /\ resp.status = 200
    /\ req.body.username = None
    /\ req.body.age = Some(0)
    /\ resp.users[1].username = Rep(50)
    /\ resp.users[1].gender = "female"
    /\ Cardinality(DOMAIN table) = 2

\* the state a successful DELETE leaves, asked for the deleted id
C5_AfterDelete ==
    (req.method = "DELETE" /\ resp.status = 200) =>
        /\ Serve(table, Request("GET", IdPath(resp.id), NoBody, NoQuery)).resp.status = 404
        /\ get_user(table, ToString(resp.id)).resp.status = 404
        /\ \A u \in Range(Serve(table, Request("GET", UsersPath, NoBody, NoQuery)).resp.users) :
              u.id # resp.id
        /\ \A q \in Queries : \A u \in Range(search_users(table, q).resp.users) :
              u.id # resp.id

\* a row enters the table only by a create that answers 200
C5_OnlyCreateAdds ==
    (DOMAIN table' \ DOMAIN table # {}) =>
        (resp'.endpoint = "create_user" /\ resp'.status = 200)

\* C5: when a DELETE of id i has answered 200, GET /users/i answers 404 and
\* no record of id i is in the answer of the list or of any search; and no
\* request but a create brings a row into the table.
C5_DeletedIsGone == []C5_AfterDelete /\ [][C5_OnlyCreateAdds]_vars

C5_Witness ==
    /\ req.method = "DELETE"
    /\ resp.status = 200
    /\ resp.id = 1
    /\ DOMAIN table = {2}

\* C6: a search with a valid username, age > 0 and gender answers 200 with
\* exactly the stored records equal to the input in all three fields, each
\* once, and 404 when there are none.
C6_SearchExact ==
    (/\ req.method = "GET"
     /\ req.path = SearchPath
     /\ UserQueryParams(req.query))
        => IF Matching(table, req.query) = {}
           THEN resp.status = 404
           ELSE /\ resp.status = 200
                /\ Range(resp.users) = Matching(table, req.query)
                /\ Len(resp.users) = Cardinality(Matching(table, req.query))

\* the body of search_users taken alone, on every reachable table
SearchBodyExact ==
    \A q \in Queries : UserQueryParams(q) =>
        LET out == search_users(table, q).resp
        IN  IF Matching(table, q) = {}
            THEN out.status = 404
            ELSE /\ out.status = 200
                 /\ Range(out.users) = Matching(table, q)
                 /\ Len(out.users) = Cardinality(Matching(table, q))

BreaksBound(r) ==
    /\ r.method \in {"POST", "PUT"}
    /\ r.body.present
    /\ \/ r.body.username # None /\ Len(r.body.username[1]) \notin 1..50
       \/ r.body.age # None /\ r.body.age[1] \notin 0..120
       \/ r.method = "POST" /\ r.body.gender # None
              /\ r.body.gender[1] \notin {"male", "female"}

\* a create whose fields are all present and within bounds
WithinBounds(r) ==
    /\ r.method = "POST"
    /\ r.body.present
    /\ r.body.username # None /\ Len(r.body.username[1]) \in 1..50
    /\ r.body.age # None /\ r.body.age[1] \in 0..120
    /\ r.body.gender # None /\ r.body.gender[1] \in {"male", "female"}

C8_AtRest ==
    \A i \in DOMAIN table :
        /\ Len(table[i].username) \in 1..50
        /\ table[i].age \in 0..120
        /\ table[i].gender \in {"male", "female"}

C8_Step ==
    /\ BreaksBound(req') => resp'.status = 422 /\ table' = table
    /\ WithinBounds(req') =>
          /\ resp'.status = 200
          /\ resp'.id \in DOMAIN table'
          /\ table'[resp'.id].username = req'.body.username[1]
          /\ table'[resp'.id].age = req'.body.age[1]
          /\ table'[resp'.id].gender = req'.body.gender[1]

\* C8: every stored user has a username of length 1 to 50, an age from 0 to
\* 120 and gender male or female; a create or update that breaks a bound is
\* answered 422 and leaves the table as it was; a create within the bounds,
\* the ends 0, 120 and 50 included, is accepted and stored as sent.
C8_BoundsAtRest == []C8_AtRest /\ [][C8_Step]_vars

\* an update with age 121 was rejected while the table holds a row at the
\* upper ends of both ranges and a row at the lower ends
C8_Witness ==
    /\ req.method = "PUT"
    /\ req.body.age = Some(121)
    /\ resp.status = 422
    /\ \E i \in DOMAIN table : table[i].age = 120 /\ Len(table[i].username) = 50
    /\ \E i \in DOMAIN table : table[i].age = 0 /\ Len(table[i].username) = 1

\* C9: a PUT for an existing id with neither username nor age, a PUT without
\* a body included, answers 200 with the stored record and leaves the table
\* as it was.
C9_EmptyUpdateSucceeds ==
    [][(/\ req'.method = "PUT"
        /\ Targets(req', table)
        /\ req'.body.username = None
        /\ req'.body.age = None)
          => /\ resp'.status = 200
             /\ resp'.users = <<UserResponse(table[ParseInt(req'.path[2])[1]])>>
             /\ table' = table]_vars

\* C10: in users.py, when every create that was started has returned, the ids
\* returned are pairwise distinct and fake_db holds one user for each of them.
C10_ConcurrentCreates ==
    (\A t \in Threads : pc[t] = "idle") =>
        /\ \A i, j \in DOMAIN returned : i # j => returned[i] # returned[j]
        /\ Cardinality(DOMAIN fake_db) = Len(returned)

====
